---- MODULE Spec2Model ----
(***************************************************************************)
(* allocateless: a go/analysis pass that reports function-local variables  *)
(* initialised with a constant literal that are never reassigned and never *)
(* passed to a call ("<name> can be moved to global").                     *)
(*                                                                         *)
(* The model follows src/main.go.  A go/ast node is a record with a        *)
(* "kind" field naming its Go type and the fields of that type the code    *)
(* reads.  Traverse is modelled statement by statement: `body` is the      *)
(* prefix of fn.Body.List the range loop of line 71 has visited, `r` is    *)
(* the Identifiers value of line 69, `findings` what pass.Reportf has      *)
(* received for the function at hand, `later` whether another function was *)
(* analysed before it.                                                     *)
(* A run-time panic (nil dereference, index out of range) is pc =          *)
(* "crashed"; nothing runs after it.  Not modelled: TestFile (lines 25-34, *)
(* files skipped before any node is visited) and the fmt.Println of line   *)
(* 240, which touch none of the state above.                               *)
(***************************************************************************)
EXTENDS Naturals, Sequences, FiniteSets, TLC

VARIABLES pc, node, later, body, r, findings,
          ppc, pexpr, pfunction, pdepth, presult

vars == <<pc, node, later, body, r, findings, ppc, pexpr, pfunction, pdepth, presult>>
travVars == <<pc, node, later, body, r, findings>>
parseVars == <<ppc, pexpr, pfunction, pdepth, presult>>

\* Longest function body (top-level statements) the model scans.
MaxStmts == 2
\* Deepest nesting of the expressions handed to parse on their own.
MaxDepth == 3

(***************************************************************************)
(* go/ast nodes                                                            *)
(***************************************************************************)
Ident(n) == [kind |-> "Ident", Name |-> n]
BasicLit == [kind |-> "BasicLit"]
SelectorExpr(x, sel) == [kind |-> "SelectorExpr", X |-> x, Sel |-> sel]
BinaryExpr(x, y) == [kind |-> "BinaryExpr", X |-> x, Y |-> y]
CallExpr(fun, args) == [kind |-> "CallExpr", Fun |-> fun, Args |-> args]
SliceExpr(x, low) == [kind |-> "SliceExpr", X |-> x, Low |-> low]
IndexExpr(x, index) == [kind |-> "IndexExpr", X |-> x, Index |-> index]
IndexListExpr(x, indices) == [kind |-> "IndexListExpr", X |-> x, Indices |-> indices]
ParenExpr(x) == [kind |-> "ParenExpr", X |-> x]
UnaryExpr(x) == [kind |-> "UnaryExpr", X |-> x]
KeyValueExpr(k, v) == [kind |-> "KeyValueExpr", Key |-> k, Value |-> v]
\* Type is the kind of the literal's type expression: "MapType", "ArrayType"
\* (arrays and slices), or "Ident" for a named type such as a struct.
CompositeLit(type, elts) == [kind |-> "CompositeLit", Type |-> type, Elts |-> elts]

AssignStmt(lhs, tok, rhs) == [kind |-> "AssignStmt", Lhs |-> lhs, Tok |-> tok, Rhs |-> rhs]
ExprStmt(x) == [kind |-> "ExprStmt", X |-> x]
\* Any statement that is neither an assignment nor an expression statement;
\* Body holds the statements nested in it.
BlockStmt(kind, stmts) == [kind |-> kind, Body |-> stmts]

FuncDecl(hasBody) == [kind |-> "FuncDecl", HasBody |-> hasBody]
OtherNode(kind) == [kind |-> kind, HasBody |-> FALSE]

\* token.Pos of target j of top-level statement k.
Pos(k, j) == <<k, j>>

(***************************************************************************)
(* Identifiers (src/main.go 36-49)                                         *)
(***************************************************************************)
\* The zero value of the struct.
Identifiers ==
    [defines |-> <<>>, tokens |-> <<>>, lhsVars |-> <<>>, rhsVars |-> <<>>, funcArgs |-> <<>>]

\* slices.Contains
Contains(s, v) == \E k \in 1..Len(s) : s[k] = v

(***************************************************************************)
(* parse, parseRhs, parseFunc (src/main.go 121-164)                        *)
(***************************************************************************)
RECURSIVE parse(_, _, _)
RECURSIVE parseFunc(_, _)
RECURSIVE parseRhs(_, _)

\* parse as it would be if a call handed the mode of the call site on to
\* its arguments (parse(ex, r, function) at line 162).
RECURSIVE parseCallSiteMode(_, _, _)
RECURSIVE parseArgsInMode(_, _, _)
parseArgsInMode(exprs, ids, function) ==
    IF exprs = <<>> THEN ids
    ELSE parseArgsInMode(Tail(exprs), parseCallSiteMode(Head(exprs), ids, function), function)

parseCallSiteMode(expr, ids, function) ==
    CASE expr.kind = "BinaryExpr" ->
            parseCallSiteMode(expr.Y, parseCallSiteMode(expr.X, ids, function), function)
      [] expr.kind = "Ident" ->
            IF function
            THEN [ids EXCEPT !.funcArgs = Append(@, expr.Name)]
            ELSE [ids EXCEPT !.rhsVars = Append(@, expr.Name)]
      [] expr.kind = "CallExpr" -> parseArgsInMode(expr.Args, ids, function)
      [] expr.kind \in {"SliceExpr", "IndexExpr", "ParenExpr"} ->
            parseCallSiteMode(expr.X, ids, function)
      [] OTHER -> ids

\* parse as it would be if an index expression also had its index
\* classified (parse(t.Index, r, function) added at line 150).
RECURSIVE parseWithIndex(_, _, _)
RECURSIVE parseFuncWithIndex(_, _)
parseFuncWithIndex(exprs, ids) ==
    IF exprs = <<>> THEN ids
    ELSE parseFuncWithIndex(Tail(exprs), parseWithIndex(Head(exprs), ids, TRUE))

parseWithIndex(expr, ids, function) ==
    CASE expr.kind = "BinaryExpr" ->
            parseWithIndex(expr.Y, parseWithIndex(expr.X, ids, function), function)
      [] expr.kind = "Ident" ->
            IF function
            THEN [ids EXCEPT !.funcArgs = Append(@, expr.Name)]
            ELSE [ids EXCEPT !.rhsVars = Append(@, expr.Name)]
      [] expr.kind = "CallExpr" -> parseFuncWithIndex(expr.Args, ids)
      [] expr.kind \in {"SliceExpr", "ParenExpr"} -> parseWithIndex(expr.X, ids, function)
      [] expr.kind = "IndexExpr" ->
            parseWithIndex(expr.Index, parseWithIndex(expr.X, ids, function), function)
      [] OTHER -> ids

parse(expr, ids, function) ==
    CASE expr.kind = "BinaryExpr" ->
            parse(expr.Y, parse(expr.X, ids, function), function)
      [] expr.kind = "Ident" ->
            IF function
            THEN [ids EXCEPT !.funcArgs = Append(@, expr.Name)]
            ELSE [ids EXCEPT !.rhsVars = Append(@, expr.Name)]
      [] expr.kind = "CallExpr" -> parseFunc(expr.Args, ids)
      [] expr.kind = "SliceExpr" -> parse(expr.X, ids, function)
      [] expr.kind = "IndexExpr" -> parse(expr.X, ids, function)
      [] expr.kind = "ParenExpr" -> parse(expr.X, ids, function)
      [] OTHER -> ids

parseFunc(exprs, ids) ==
    IF exprs = <<>> THEN ids
    ELSE parseFunc(Tail(exprs), parse(Head(exprs), ids, TRUE))

parseRhs(exprs, ids) ==
    IF exprs = <<>> THEN ids
    ELSE parseRhs(Tail(exprs), parse(Head(exprs), ids, FALSE))

(***************************************************************************)
(* IsNewDefinition, CheckConstLiteral, BasicOrSelector (src/main.go        *)
(* 166-220)                                                                *)
(***************************************************************************)
\* BasicOrSelector as it would be if it let a plain identifier through.
BasicSelectorOrIdent(expr) == expr.kind \in {"BasicLit", "SelectorExpr", "Ident"}

BasicOrSelector(expr) ==
    IF expr.kind = "BasicLit" THEN TRUE
    ELSE IF expr.kind = "SelectorExpr" THEN TRUE
    ELSE FALSE

RECURSIVE CheckElts(_)
CheckElts(elts) ==
    IF elts = <<>> THEN TRUE
    ELSE LET a == Head(elts) IN
         CASE a.kind = "SelectorExpr" -> CheckElts(Tail(elts))
           [] a.kind = "BasicLit" -> CheckElts(Tail(elts))
           [] a.kind = "KeyValueExpr" ->
                 IF ~BasicOrSelector(a.Key) \/ ~BasicOrSelector(a.Value)
                 THEN FALSE
                 ELSE CheckElts(Tail(elts))
           [] OTHER -> FALSE

CheckConstLiteral(ex) == CheckElts(ex.Elts)

IsNewDefinition(expr) ==
    IF Len(expr) # 1 THEN FALSE
    ELSE LET ex == expr[1] IN
         CASE ex.kind = "CompositeLit" ->
                 IF ex.Type = "MapType" THEN CheckConstLiteral(ex)
                 ELSE IF ex.Type = "ArrayType" THEN CheckConstLiteral(ex)
                 ELSE FALSE
           [] ex.kind = "BasicLit" -> TRUE
           [] OTHER -> FALSE

(***************************************************************************)
(* getVariableNames (src/main.go 222-249)                                  *)
(***************************************************************************)
RECURSIVE getVariableNames(_)
getVariableNames(expr) ==
    IF expr = <<>> THEN <<>>
    ELSE LET e == Head(expr)
             names ==
                 CASE e.kind = "Ident" -> IF e.Name # "" THEN <<e.Name>> ELSE <<>>
                   [] e.kind = "ParenExpr" -> getVariableNames(<<e.X>>)
                   [] e.kind = "IndexExpr" -> getVariableNames(<<e.X>>)
                   [] e.kind = "IndexListExpr" -> getVariableNames(<<e.X>>)
                   [] e.kind = "CallExpr" -> getVariableNames(e.Args)
                   [] OTHER -> <<>>
         IN names \o getVariableNames(Tail(expr))

(***************************************************************************)
(* Traverse (src/main.go 62-106)                                           *)
(***************************************************************************)
\* The loop body as it would be without the test of line 82: every
\* assignment that is no new definition is scanned as a plain assignment.
TraverseStmtAnyTok(ids, s, k) ==
    IF s.kind = "AssignStmt"
    THEN IF s.Tok = "DEFINE" /\ IsNewDefinition(s.Rhs)
         THEN [ids EXCEPT !.defines = @ \o getVariableNames(s.Lhs),
                          !.tokens = Append(@, Pos(k, 1))]
         ELSE parseRhs(s.Rhs, [ids EXCEPT !.lhsVars = @ \o getVariableNames(s.Lhs)])
    ELSE IF s.kind = "ExprStmt"
    THEN parse(s.X, ids, FALSE)
    ELSE ids

\* One iteration of the loop over fn.Body.List (lines 71-91): the state
\* after statement s, which is statement number k of the body.
TraverseStmt(ids, s, k) ==
    IF s.kind = "AssignStmt"
    THEN IF s.Tok = "DEFINE" /\ IsNewDefinition(s.Rhs)
         THEN [ids EXCEPT !.defines = @ \o getVariableNames(s.Lhs),
                          !.tokens = Append(@, Pos(k, 1))]
         ELSE IF s.Tok = "ASSIGN"
         THEN parseRhs(s.Rhs, [ids EXCEPT !.lhsVars = @ \o getVariableNames(s.Lhs)])
         ELSE ids
    ELSE IF s.kind = "ExprStmt"
    THEN parse(s.X, ids, FALSE)
    ELSE ids

\* The tests as they would be without the one of lines 97-99.
SkippedFuncArgsOnly(ids, v) == Contains(ids.funcArgs, v)

\* The two `continue` tests of lines 94-99.
Skipped(ids, v) == Contains(ids.funcArgs, v) \/ Contains(ids.lhsVars, v)

\* pass.Reportf(pos, "%s can be moved to global", v), line 102.
Reportf(pos, v) == [pos |-> pos, name |-> v, message |-> v \o " can be moved to global"]

\* One iteration of the loop over r.defines (lines 93-103) at index k (from
\* 1), with `out` the findings reported so far.  r.tokens[k] panics with
\* "index out of range" when r.tokens is shorter than r.defines.
ReportIter(ids, k, out) ==
    LET v == ids.defines[k] IN
    IF Skipped(ids, v) THEN [findings |-> out, panic |-> FALSE]
    ELSE IF k > Len(ids.tokens) THEN [findings |-> out, panic |-> TRUE]
    ELSE [findings |-> Append(out, Reportf(ids.tokens[k], v)), panic |-> FALSE]

\* The loop of lines 93-103 from index k on: what it has reported when it
\* ends, and whether it ended in a panic.
RECURSIVE ReportLoop(_, _, _)
ReportLoop(ids, k, out) ==
    IF k > Len(ids.defines) THEN [findings |-> out, panic |-> FALSE]
    ELSE LET res == ReportIter(ids, k, out) IN
         IF res.panic THEN res ELSE ReportLoop(ids, k + 1, res.findings)

\* Line 69 as it would be if Traverse kept one Identifiers for the whole
\* pass instead of a fresh one per call.
SharedIdentifiers == r

\* r := Identifiers{} (line 69): every call of Traverse starts from the
\* zero value.
FreshIdentifiers == Identifiers

(***************************************************************************)
(* Inputs: the nodes ast.Inspect hands to Traverse and the statements of   *)
(* a function body.  They are syntax trees go/parser builds without a      *)
(* syntax error; the code never consults type information, so neither      *)
(* does the model.                                                         *)
(***************************************************************************)
IdA == Ident("a")
IdB == Ident("b")
Lit == BasicLit
Call1(fn, arg) == CallExpr(Ident(fn), <<arg>>)

\* Expressions used as expression statements and right-hand sides.
Exprs ==
    { Call1("f", IdA),                                 \* f(a)
      CallExpr(Ident("f"), <<IdB, IdA>>),              \* f(b, a)
      CallExpr(SelectorExpr(IdA, "M"), <<>>),          \* a.M()
      CallExpr(SelectorExpr(IdA, "M"), <<IdB>>),       \* a.M(b)
      Call1("f", Call1("g", IdA)),                     \* f(g(a))
      IndexExpr(Call1("f", IdA), Lit),                 \* f(a)[0]
      SliceExpr(Call1("f", IdA), Lit),                 \* f(a)[1:]
      ParenExpr(Call1("f", IdA)),                      \* (f(a))
      BinaryExpr(Lit, Call1("f", IdA)),                \* 1 + f(a)
      IndexExpr(IdB, IdA),                             \* b[a]
      IndexExpr(IdB, Call1("f", IdA)),                 \* b[f(a)]
      SliceExpr(IdA, IdB),                             \* a[b:]
      Call1("f", IndexExpr(IdA, Lit)),                 \* f(a[0])
      Call1("f", BinaryExpr(IdA, Lit)),                \* f(a + 1)
      Call1("f", ParenExpr(IdA)),                      \* f((a))
      Call1("f", UnaryExpr(IdA)),                      \* f(&a)
      Call1("f", SelectorExpr(IdA, "x")) }             \* f(a.x)

\* Left-hand sides and right-hand sides of plain assignments.
AssignLhs ==
    { <<IdA>>, <<IdB>>,
      <<IdA, IdB>>,                                    \* a, b = ...
      <<IndexExpr(IdA, Lit)>>,                         \* a["k"] = ...
      <<ParenExpr(IdA)>>,                              \* (a) = ...
      <<SelectorExpr(IdA, "x")>>,                      \* a.x = ...
      <<IndexExpr(Call1("f", IdA), Lit)>>,             \* f(a)[0] = ...
      <<IndexListExpr(IdA, <<Lit, Lit>>)>> }           \* a[K, V] = ...
AssignRhs ==
    { <<Lit>>,
      <<IdA>>,
      <<BinaryExpr(BinaryExpr(Lit, Lit), IdA)>>,       \* "1234" + "12" + a
      <<CallExpr(SelectorExpr(IdA, "M"), <<>>)>>,      \* a.M()
      <<Call1("f", IdA)>>,
      <<Lit, Call1("f", IdB)>> }

\* Initialisers of short-form declarations.
DefineRhs ==
    { <<Lit>>,                                                      \* "s"
      <<CompositeLit("MapType", <<>>)>>,                            \* map[K]V{}
      <<CompositeLit("ArrayType", <<Lit, SelectorExpr(Ident("pkg"), "C")>>)>>,
      <<CompositeLit("MapType", <<KeyValueExpr(Lit, Lit)>>)>>,
      <<CompositeLit("MapType", <<KeyValueExpr(SelectorExpr(Ident("pkg"), "C"), Lit)>>)>>,
      <<CompositeLit("MapType", <<KeyValueExpr(Lit, IdB)>>)>>,      \* {"k": b}
      <<CompositeLit("MapType", <<KeyValueExpr(Lit, Call1("compute", IdB))>>)>>,
      <<CompositeLit("ArrayType", <<Lit, CompositeLit("ArrayType", <<>>)>>)>>,
      <<CompositeLit("ArrayType", <<IdB>>)>>,                       \* []T{b}
      <<CompositeLit("Ident", <<>>)>>,                              \* T{}
      <<Call1("f", IdB)>>,                                          \* f(b)
      <<IndexExpr(IdB, Lit)>>,                                      \* b["1"]
      <<Lit, Lit>> }                                                \* two values
DefineLhs ==
    { <<IdA>>, <<IdB>>, <<IdA, IdB>> }

\* Statements nested in a conditional, loop or switch.
Nested == << AssignStmt(<<IdA>>, "ASSIGN", <<Lit>>), ExprStmt(Call1("f", IdA)) >>

Stmts ==
    { AssignStmt(l, "DEFINE", rhs) : l \in {<<IdA>>}, rhs \in DefineRhs }
    \cup { AssignStmt(l, "DEFINE", <<Lit>>) : l \in DefineLhs }
    \cup { AssignStmt(<<IdA, IdB>>, "DEFINE", <<Lit, Lit>>),
           AssignStmt(<<IdB>>, "DEFINE", <<CompositeLit("ArrayType", <<>>)>>) }
    \cup { AssignStmt(l, "ASSIGN", <<Lit>>) : l \in AssignLhs }
    \cup { AssignStmt(<<IdB>>, "ASSIGN", rhs) : rhs \in AssignRhs }
    \cup { AssignStmt(<<IdA>>, "ADD_ASSIGN", <<Call1("f", IdA)>>) }
    \cup { ExprStmt(e) : e \in Exprs }
    \cup { BlockStmt(k, Nested) : k \in {"IfStmt", "ForStmt", "SwitchStmt"} }
    \cup { [kind |-> "ReturnStmt", Results |-> <<Call1("f", IdA)>>],
           [kind |-> "DeclStmt"] }

Nodes == { FuncDecl(TRUE), FuncDecl(FALSE), OtherNode("GenDecl") }

(***************************************************************************)
(* The pass: run (lines 108-119) has ast.Inspect call Traverse on every    *)
(* node of every file, one call after the other.                           *)
(***************************************************************************)
TraverseInit ==
    /\ pc = "visit"
    /\ node = OtherNode("GenDecl")
    /\ later = FALSE
    /\ body = <<>>
    /\ r = Identifiers
    /\ findings = <<>>

\* Lines 64-67: a node that is no function declaration is passed over.
TraverseNotFunc ==
    /\ pc = "visit"
    /\ \E n \in Nodes : n.kind # "FuncDecl" /\ node' = n
    /\ UNCHANGED <<pc, later, body, r, findings>>

\* Lines 69-71 for a declaration with a body: fresh Identifiers, and the
\* range loop starts.
TraverseFunc ==
    /\ pc = "visit"
    /\ node' = FuncDecl(TRUE)
    /\ later' = (later \/ node.kind = "FuncDecl")
    /\ r' = FreshIdentifiers
    /\ body' = <<>>
    /\ findings' = <<>>
    /\ pc' = "scan"

\* Lines 69-71 for a declaration without a body (fn.Body is nil):
\* fn.Body.List dereferences nil.
TraverseNoBody ==
    /\ pc = "visit"
    /\ node' = FuncDecl(FALSE)
    /\ later' = (later \/ node.kind = "FuncDecl")
    /\ r' = FreshIdentifiers
    /\ body' = <<>>
    /\ findings' = <<>>
    /\ pc' = "crashed"

\* Lines 71-91: the next statement of the body.
ScanStmt ==
    /\ pc = "scan"
    /\ Len(body) < MaxStmts
    /\ \E s \in Stmts :
          /\ body' = Append(body, s)
          /\ r' = TraverseStmt(r, s, Len(body) + 1)
    /\ UNCHANGED <<pc, node, later, findings, parseVars>>

\* The body has no further statement: the loop of lines 93-103 runs, to
\* its end (line 105: return true) or to a panic.
TraverseReport ==
    /\ pc = "scan"
    /\ LET res == ReportLoop(r, 1, <<>>) IN
          /\ findings' = res.findings
          /\ pc' = IF res.panic THEN "crashed" ELSE "visit"
    /\ UNCHANGED <<node, later, body, r, parseVars>>

ParseIdle ==
    /\ ppc = "idle"
    /\ pexpr = Lit
    /\ pfunction = FALSE
    /\ pdepth = 0
    /\ presult = Identifiers

Init == TraverseInit /\ ParseIdle

Next ==
    \/ TraverseNotFunc /\ UNCHANGED parseVars
    \/ TraverseFunc /\ UNCHANGED parseVars
    \/ TraverseNoBody /\ UNCHANGED parseVars
    \/ ScanStmt
    \/ TraverseReport

Spec == Init /\ [][Next]_vars

(***************************************************************************)
(* parse on its own: an expression is built from the inside out, one       *)
(* enclosing node per step, and then classified from the zero Identifiers  *)
(* in either mode (function = TRUE is the call of line 162, FALSE those of *)
(* lines 89 and 123).                                                      *)
(***************************************************************************)
Atoms == { IdA, Lit, SelectorExpr(IdA, "x") }

ParseInit ==
    /\ ppc = "build"
    /\ pexpr \in Atoms
    /\ pfunction \in BOOLEAN
    /\ pdepth = 0
    /\ presult = Identifiers

Wrap(e) ==
    /\ ppc = "build"
    /\ pdepth < MaxDepth
    /\ pexpr' = e
    /\ pdepth' = pdepth + 1
    /\ UNCHANGED <<ppc, pfunction, presult, travVars>>

WrapBinary == Wrap(BinaryExpr(pexpr, IdB)) \/ Wrap(BinaryExpr(IdB, pexpr))
WrapParen == Wrap(ParenExpr(pexpr))
WrapIndex == Wrap(IndexExpr(pexpr, IdB)) \/ Wrap(IndexExpr(IdB, pexpr))
WrapSlice == Wrap(SliceExpr(pexpr, IdB)) \/ Wrap(SliceExpr(IdB, pexpr))
WrapCall ==
    \/ Wrap(CallExpr(Ident("f"), <<pexpr>>))
    \/ Wrap(CallExpr(Ident("f"), <<IdB, pexpr>>))
    \/ Wrap(CallExpr(SelectorExpr(pexpr, "M"), <<IdB>>))
WrapOther == Wrap(UnaryExpr(pexpr)) \/ Wrap(SelectorExpr(pexpr, "x"))

Classify ==
    /\ ppc = "build"
    /\ presult' = parse(pexpr, Identifiers, pfunction)
    /\ ppc' = "parsed"
    /\ UNCHANGED <<pexpr, pfunction, pdepth, travVars>>

ParseNext ==
    \/ WrapBinary
    \/ WrapParen
    \/ WrapIndex
    \/ WrapSlice
    \/ WrapCall
    \/ WrapOther
    \/ Classify

InitParse == TraverseInit /\ ParseInit

SpecParse == InitParse /\ [][ParseNext]_vars

(***************************************************************************)
(* What a function body says, read off the syntax alone                    *)
(***************************************************************************)
Range(s) == { s[k] : k \in 1..Len(s) }
FindingNames == { findings[k].name : k \in 1..Len(findings) }

\* The initialiser list is one qualifying literal (spec 4.1).
ConstantForm(e) == e.kind \in {"BasicLit", "SelectorExpr"}
QualifyingLiteral(rhs) ==
    /\ Len(rhs) = 1
    /\ \/ rhs[1].kind = "BasicLit"
       \/ /\ rhs[1].kind = "CompositeLit"
          /\ rhs[1].Type \in {"MapType", "ArrayType"}
          /\ \A e \in Range(rhs[1].Elts) :
                \/ ConstantForm(e)
                \/ e.kind = "KeyValueExpr" /\ ConstantForm(e.Key) /\ ConstantForm(e.Value)

IsDefine(s) == s.kind = "AssignStmt" /\ s.Tok = "DEFINE"
IsPlainAssign(s) == s.kind = "AssignStmt" /\ s.Tok = "ASSIGN"
IsQualifyingDefine(s) == IsDefine(s) /\ QualifyingLiteral(s.Rhs)

\* The identifiers among the targets of a statement, in order.
IsIdent(e) == e.kind = "Ident"
TargetNames(lhs) == [k \in 1..Len(SelectSeq(lhs, IsIdent)) |-> SelectSeq(lhs, IsIdent)[k].Name]

\* The names the qualifying declarations of a body introduce, in order, and
\* for each of them the number of the statement that introduced it.
RECURSIVE DeclaredFrom(_, _)
DeclaredFrom(stmts, k) ==
    IF k > Len(stmts) THEN <<>>
    ELSE (IF IsQualifyingDefine(stmts[k])
          THEN [j \in 1..Len(TargetNames(stmts[k].Lhs)) |->
                   [name |-> TargetNames(stmts[k].Lhs)[j], stmt |-> k]]
          ELSE <<>>) \o DeclaredFrom(stmts, k + 1)
Declared(stmts) == DeclaredFrom(stmts, 1)
DeclaredNames(stmts) == { d.name : d \in Range(Declared(stmts)) }

\* The expressions a body evaluates at top level in a bare expression
\* statement or on the right-hand side of a plain assignment.
UseRoots(stmts) ==
    UNION { IF s.kind = "ExprStmt" THEN {s.X}
            ELSE IF IsPlainAssign(s) THEN Range(s.Rhs)
            ELSE {} : s \in Range(stmts) }

\* The calls met from e by going down through binary operands, parentheses,
\* the base operand of an index or slice expression, and call arguments.
RECURSIVE ReachedCalls(_)
ReachedCalls(e) ==
    CASE e.kind = "BinaryExpr" -> ReachedCalls(e.X) \cup ReachedCalls(e.Y)
      [] e.kind \in {"ParenExpr", "IndexExpr", "SliceExpr"} -> ReachedCalls(e.X)
      [] e.kind = "CallExpr" -> {e} \cup UNION { ReachedCalls(x) : x \in Range(e.Args) }
      [] OTHER -> {}

\* The names that are themselves an argument of such a call.
PassedNames(stmts) ==
    { x.Name : x \in { y \in UNION { Range(c.Args) : c \in UNION { ReachedCalls(e) : e \in UseRoots(stmts) } } :
                          y.kind = "Ident" } }

\* The names that are themselves a target of a plain assignment.
AssignedNames(stmts) ==
    UNION { IF IsPlainAssign(s) THEN Range(TargetNames(s.Lhs)) ELSE {} : s \in Range(stmts) }

\* The sub-expressions of an expression node.
Children(e) ==
    CASE e.kind \in {"ParenExpr", "UnaryExpr", "SelectorExpr"} -> {e.X}
      [] e.kind = "BinaryExpr" -> {e.X, e.Y}
      [] e.kind = "IndexExpr" -> {e.X, e.Index}
      [] e.kind = "SliceExpr" -> {e.X, e.Low}
      [] e.kind = "IndexListExpr" -> {e.X} \cup Range(e.Indices)
      [] e.kind = "CallExpr" -> {e.Fun} \cup Range(e.Args)
      [] e.kind = "KeyValueExpr" -> {e.Key, e.Value}
      [] e.kind = "CompositeLit" -> Range(e.Elts)
      [] OTHER -> {}

\* Every identifier that occurs in e.
RECURSIVE IdentsIn(_)
IdentsIn(e) ==
    (IF e.kind = "Ident" THEN {e.Name} ELSE {}) \cup UNION { IdentsIn(c) : c \in Children(e) }

\* Every identifier that occurs inside the argument list of a call of e.
RECURSIVE IdentsInArgs(_)
IdentsInArgs(e) ==
    (IF e.kind = "CallExpr" THEN UNION { IdentsIn(x) : x \in Range(e.Args) } ELSE {})
        \cup UNION { IdentsInArgs(c) : c \in Children(e) }

\* The names a body uses inside call arguments, and those it uses in the
\* targets of plain assignments.
UsedInArgs(stmts) == UNION { IdentsInArgs(e) : e \in UseRoots(stmts) }
UsedInTargets(stmts) ==
    UNION { IF IsPlainAssign(s) THEN UNION { IdentsIn(l) : l \in Range(s.Lhs) } ELSE {} :
               s \in Range(stmts) }

\* What the classifier records for e in mode m (spec 4.2), as a set of
\* <<name, recorded in argument context>> pairs.
RECURSIVE Recorded(_, _)
Recorded(e, m) ==
    CASE e.kind = "Ident" -> {<<e.Name, m>>}
      [] e.kind = "BinaryExpr" -> Recorded(e.X, m) \cup Recorded(e.Y, m)
      [] e.kind \in {"SliceExpr", "IndexExpr", "ParenExpr"} -> Recorded(e.X, m)
      [] e.kind = "CallExpr" -> UNION { Recorded(x, TRUE) : x \in Range(e.Args) }
      [] OTHER -> {}

\* Traverse on a body by itself, from the zero Identifiers.
RECURSIVE ScanFrom(_, _, _)
ScanFrom(ids, stmts, k) ==
    IF k > Len(stmts) THEN ids ELSE ScanFrom(TraverseStmt(ids, stmts[k], k), stmts, k + 1)
ScanAlone(stmts) == ScanFrom(Identifiers, stmts, 1)

TraverseAlone(stmts) == ReportLoop(ScanAlone(stmts), 1, <<>>)

\* The k-th smallest member of a set of numbers.
Nth(S, k) == CHOOSE n \in S : Cardinality({ m \in S : m <= n }) = k

\* The function at hand has been analysed to the end / has panicked.
Returned == pc = "visit" /\ node = FuncDecl(TRUE)
Crashed == pc = "crashed"

(***************************************************************************)
(* Claims                                                                  *)
(***************************************************************************)
ScenarioA ==
    << AssignStmt(<<IdA>>, "DEFINE", <<CompositeLit("MapType", <<>>)>>),
       AssignStmt(<<IdA>>, "ASSIGN", <<Lit>>) >>

\* C1: a name that is an argument of a call met in a bare expression
\* statement or on the right-hand side of a plain assignment (through
\* binary, parenthesized, index-base, slice-base and call-argument
\* nesting) is never the name of a finding.
C1_PassedNeverReported == \A f \in Range(findings) : f.name \notin PassedNames(body)

\* C1 witness: a := map[K]V{}; f(g(a)) has been analysed and a, passed to
\* the inner call, was not reported.
C1_Witness ==
    /\ Returned
    /\ body = << AssignStmt(<<IdA>>, "DEFINE", <<CompositeLit("MapType", <<>>)>>),
                 ExprStmt(Call1("f", Call1("g", IdA))) >>
    /\ r.defines = <<"a">>
    /\ "a" \in PassedNames(body)
    /\ findings = <<>>

\* C2: a name that is the target of a plain assignment is never the name
\* of a finding, and a := map[string]string{}; a = nil yields no finding.
C2_AssignedNeverReported ==
    /\ \A f \in Range(findings) : f.name \notin AssignedNames(body)
    /\ (Returned /\ body = ScenarioA) => findings = <<>>

\* C2 witness: scenario A has been analysed to the end.
C2_Witness ==
    /\ Returned
    /\ body = ScenarioA
    /\ r.defines = <<"a">>
    /\ "a" \in AssignedNames(body)
    /\ findings = <<>>

\* C3: a defined variable that is only read (never inside the arguments of
\* a call, never in the target of a plain assignment) is reported.
C3_ReadOnlyReported ==
    Returned \/ Crashed =>
        \A n \in DeclaredNames(body) :
            n \notin UsedInArgs(body) /\ n \notin UsedInTargets(body) => n \in FindingNames

\* C4: the findings are the defined (position, name) pairs whose name is in
\* neither funcArgs nor lhsVars, in definition order, each with the
\* message "<name> can be moved to global".
C4_FilteredSubsequence ==
    Returned \/ (Crashed /\ node.HasBody) =>
        LET keep == { k \in 1..Len(r.defines) :
                         ~Contains(r.funcArgs, r.defines[k]) /\ ~Contains(r.lhsVars, r.defines[k]) }
        IN /\ Len(findings) = Cardinality(keep)
           /\ \A j \in 1..Len(findings) :
                 /\ Nth(keep, j) <= Len(r.tokens)
                 /\ findings[j] = [pos |-> r.tokens[Nth(keep, j)],
                                   name |-> r.defines[Nth(keep, j)],
                                   message |-> r.defines[Nth(keep, j)] \o " can be moved to global"]

\* C5: the defined names are exactly the left-hand names of the short-form
\* declarations whose single initialiser is a qualifying literal, so a name
\* declared only with another initialiser is in no finding.
C5_DefinitionsQualify ==
    /\ pc = "scan" \/ Returned =>
          r.defines = [k \in 1..Len(Declared(body)) |-> Declared(body)[k].name]
    /\ \A f \in Range(findings) : f.name \in DeclaredNames(body)

\* C5 witness: a := map[K]V{"k": compute(b)} did not define a, b := "s"
\* after it defined b, and only b was reported.
C5_Witness ==
    /\ Returned
    /\ body = << AssignStmt(<<IdA>>, "DEFINE",
                    <<CompositeLit("MapType", <<KeyValueExpr(Lit, Call1("compute", IdB))>>)>>),
                 AssignStmt(<<IdB>>, "DEFINE", <<Lit>>) >>
    /\ r.defines = <<"b">>
    /\ FindingNames = {"b"}

\* C6: scanning and deciding never crash.
C6_NeverCrashes == pc # "crashed"

\* C8: defined names and recorded positions have equal length, the position
\* at index k is that of the first target of the statement that introduced
\* the name at index k, and every finding carries the position of the
\* statement that defined the name it reports.
C8_PositionsPairNames ==
    node = FuncDecl(TRUE) =>
        /\ Len(r.defines) = Len(r.tokens)
        /\ Len(r.defines) = Len(Declared(body))
        /\ \A k \in 1..Len(r.defines) : r.tokens[k] = Pos(Declared(body)[k].stmt, 1)
        /\ \A f \in Range(findings) :
              \E d \in Range(Declared(body)) : d.name = f.name /\ f.pos = Pos(d.stmt, 1)

C9_Classifier ==
    ppc = "parsed" =>
        /\ Range(presult.funcArgs) = { p[1] : p \in { q \in Recorded(pexpr, pfunction) : q[2] } }
        /\ Range(presult.rhsVars) = { p[1] : p \in { q \in Recorded(pexpr, pfunction) : ~q[2] } }
        /\ presult.defines = <<>> /\ presult.tokens = <<>> /\ presult.lhsVars = <<>>

\* C9 witness: b + f(b, (a)) classified in plain-use mode: the operand b is
\* a use, the arguments b and a are function arguments.
C9_Witness ==
    /\ ppc = "parsed"
    /\ pfunction = FALSE
    /\ pexpr = BinaryExpr(IdB, CallExpr(Ident("f"), <<IdB, ParenExpr(IdA)>>))
    /\ presult.funcArgs = <<"b", "a">>
    /\ presult.rhsVars = <<"b">>

\* C10: a qualifying short-form declaration changes the definitions only,
\* a plain assignment leaves them alone, a bare expression statement
\* leaves them and lhsVars alone, and any other top-level statement
\* (conditional, loop, switch, return, compound assignment, short-form
\* declaration with another initialiser) changes nothing.
C10_StatementFrame ==
    [][ pc = "scan" /\ Len(body') = Len(body) + 1 =>
          LET s == body'[Len(body')] IN
          CASE IsQualifyingDefine(s) ->
                  r'.lhsVars = r.lhsVars /\ r'.rhsVars = r.rhsVars /\ r'.funcArgs = r.funcArgs
            [] IsPlainAssign(s) -> r'.defines = r.defines /\ r'.tokens = r.tokens
            [] s.kind = "ExprStmt" ->
                  r'.defines = r.defines /\ r'.tokens = r.tokens /\ r'.lhsVars = r.lhsVars
            [] OTHER -> r' = r ]_vars

\* C10 witness: a := f(b) followed by a conditional that assigns a and
\* calls f(a) has been scanned and nothing was recorded.
C10_Witness ==
    /\ pc = "scan"
    /\ body = << AssignStmt(<<IdA>>, "DEFINE", <<Call1("f", IdB)>>), BlockStmt("IfStmt", Nested) >>
    /\ r = Identifiers

====
